---- MODULE Spec2Model ----
(***************************************************************************)
(* Model of the computational core of src/app.py (heat-loss calculator and *)
(* selection of "Tornado" air heaters).                                    *)
(*                                                                         *)
(* Numbers.  The program computes in Python floats.  The model computes in *)
(* exact rational arithmetic: a number is a pair <<n, d>> with d > 0 and   *)
(* gcd(n, d) = 1.  Inputs are drawn from small grids on which every float  *)
(* operation of the program is exact up to rounding error far below the    *)
(* thresholds it is compared with.  math.sqrt is modelled on arguments     *)
(* that are squares of rationals, where it is exact.                       *)
(*                                                                         *)
(* Strings.  The Cyrillic dictionary keys of the program are written in    *)
(* Latin transliteration ("kirpich" for the key 'кирпич', ...).            *)
(*                                                                         *)
(* Exceptions.  A call that raises has raised # "none" in its result and   *)
(* carries no value.                                                       *)
(***************************************************************************)
EXTENDS Integers, Sequences, FiniteSets, TLC

VARIABLES op, args, ret

vars == <<op, args, ret>>

----------------------------------------------------------------------------
(* Exact rational arithmetic *)

Abs(x) == IF x < 0 THEN -x ELSE x

RECURSIVE Gcd(_, _)
Gcd(a, b) == IF b = 0 THEN a ELSE Gcd(b, a % b)

\* n/d in lowest terms with a positive denominator (d # 0)
Rat(n, d) ==
    LET g == Gcd(Abs(n), Abs(d))
        s == IF d < 0 THEN -1 ELSE 1
    IN  <<(s * n) \div g, (s * d) \div g>>

Num(n) == <<n, 1>>
Zero == Num(0)

\* sums and comparisons go through the least common denominator
RAdd(x, y) ==
    LET g == Gcd(x[2], y[2])
    IN  Rat(x[1] * (y[2] \div g) + y[1] * (x[2] \div g), (x[2] \div g) * y[2])
RSub(x, y) == RAdd(x, <<-y[1], y[2]>>)
\* cross-reduced product, so that intermediate values stay small
RMul(x, y) ==
    LET a == Rat(x[1], y[2])
        b == Rat(y[1], x[2])
    IN  <<a[1] * b[1], a[2] * b[2]>>
\* x / y for y # 0
RDiv(x, y) == RMul(x, Rat(y[2], y[1]))
RLt(x, y) ==
    LET g == Gcd(x[2], y[2])
    IN  x[1] * (y[2] \div g) < y[1] * (x[2] \div g)
RLe(x, y) == ~RLt(y, x)
RIsZero(x) == x[1] = 0
RAbs(x) == <<Abs(x[1]), x[2]>>
\* Python's max(x, y): y only when it is strictly greater
RMax(x, y) == IF RLt(x, y) THEN y ELSE x

\* floor of the square root of a natural number
ISqrt(n) == CHOOSE r \in 0..n : r * r <= n /\ (r + 1) * (r + 1) > n
IsSquare(n) == n >= 0 /\ ISqrt(n) * ISqrt(n) = n
\* math.sqrt on the square of a rational
RSqrt(x) == <<ISqrt(x[1]), ISqrt(x[2])>>
RIsSquare(x) == IsSquare(x[1]) /\ IsSquare(x[2])

\* round(x, k) for 10^k = scale: nearest multiple of 1/scale, ties to even
RRound(x, scale) ==
    LET n == x[1] * scale
        q == n \div x[2]
        r == n % x[2]
        up == (2 * r > x[2]) \/ (2 * r = x[2] /\ q % 2 = 1)
    IN  Rat(IF up THEN q + 1 ELSE q, scale)

----------------------------------------------------------------------------
(* Data / constants *)

load_heat_exchangers ==
    << [model |-> "Tornado 3",  power |-> Num(20),  air_flow |-> 1330, price |-> 65000,  type |-> "tornado"],
       [model |-> "Tornado 4",  power |-> Num(33),  air_flow |-> 2670, price |-> 85000,  type |-> "tornado"],
       [model |-> "Tornado 5",  power |-> Num(55),  air_flow |-> 4500, price |-> 120000, type |-> "tornado"],
       [model |-> "Tornado 10", power |-> Num(240), air_flow |-> 9000, price |-> 280000, type |-> "tornado"] >>

MATERIALS ==
    [ kirpich        |-> Rat(70, 100),
      gazoblok       |-> Rat(18, 100),
      penoblok       |-> Rat(16, 100),
      keramzitoblok  |-> Rat(40, 100),
      sendvich_panel |-> Rat(5, 100),
      brus           |-> Rat(15, 100) ]

U_VALUES ==
    [ okno_odinarnoe       |-> Rat(50, 10),
      okno_dvoynoe         |-> Rat(29, 10),
      okno_troynoe         |-> Rat(15, 10),
      okno_evro            |-> Rat(13, 10),
      dver_derevyannaya    |-> Rat(20, 10),
      dver_metallicheskaya |-> Rat(15, 10),
      dver_uteplennaya     |-> Rat(8, 10),
      pol_neuteplennyy     |-> Rat(5, 10),
      pol_uteplennyy       |-> Rat(2, 10),
      potolok_neuteplennyy |-> Rat(6, 10),
      potolok_uteplennyy   |-> Rat(25, 100) ]

SECTION_COEFF ==
    [ alyuminievye |-> [h \in {350, 500} |-> IF h = 350 THEN Rat(24, 10) ELSE Rat(32, 10)],
      chugunnye    |-> [h \in {350, 500} |-> IF h = 350 THEN Rat(18, 10) ELSE Rat(26, 10)] ]

----------------------------------------------------------------------------
(* Helper functions *)

\* a raised exception: no value is returned
Raise(e) == [raised |-> e]

infer_room_sides_from_area(area_m2, ratio) ==
    IF RLe(area_m2, Zero)
    THEN [raised |-> "none", length |-> Num(1), width |-> Num(1)]
    ELSE IF RIsZero(ratio)
    THEN Raise("ZeroDivisionError")            \* area_m2 / ratio
    ELSE IF RLt(RDiv(area_m2, ratio), Zero)
    THEN Raise("ValueError")                   \* math.sqrt of a negative number
    ELSE LET width == RSqrt(RDiv(area_m2, ratio))
             length == RDiv(area_m2, width)
         IN  [raised |-> "none", length |-> length, width |-> width]

\* mutant: the section height is ignored (the 500 mm column is always used)
SectionCoeff_IgnoresHeight(rad_type, height_mm) ==
    IF rad_type \in DOMAIN SECTION_COEFF THEN SECTION_COEFF[rad_type][500] ELSE Rat(22, 10)

\* SECTION_COEFF.get(rad_type, {}).get(height_mm, None), then the 2.2 default
SectionCoeff(rad_type, height_mm) ==
    IF rad_type \in DOMAIN SECTION_COEFF /\ height_mm \in DOMAIN SECTION_COEFF[rad_type]
    THEN SECTION_COEFF[rad_type][height_mm]
    ELSE Rat(22, 10)

radiator_total_heat(sections_total, rad_type, height_mm, t_fluid_in, t_in) ==
    IF sections_total <= 0
    THEN [raised |-> "none", value |-> Zero]
    ELSE LET coeff == SectionCoeff(rad_type, height_mm)
             delta == RMax(RSub(t_fluid_in, t_in), Zero)
         IN  [raised |-> "none", value |-> RMul(RMul(Num(sections_total), coeff), delta)]

\* mutant: the difference is not clamped at 0
LossDelta_Unclamped(t_in, t_out) == RSub(t_in, t_out)

\* mutant: the difference is taken the wrong way round
LossDelta_Reversed(t_in, t_out) == RMax(RSub(t_out, t_in), Zero)

\* delta = max(t_in - t_out, 0.0)
LossDelta(t_in, t_out) == RMax(RSub(t_in, t_out), Zero)

\* total_loss = sum(components.values())
TotalLoss(c) ==
    RAdd(RAdd(RAdd(RAdd(RAdd(RAdd(Zero, c.Steny), c.Okna), c.Dveri), c.Pol), c.Potolok),
         c.Infiltraciya)

\* MATERIALS.get(params['wall_material'], 0.4)
MaterialsGet(wall_material) ==
    IF wall_material \in DOMAIN MATERIALS THEN MATERIALS[wall_material] ELSE Rat(4, 10)

calculate_heat_loss_by_components(params) ==
    LET area == params.area
        height == params.height
        delta == LossDelta(params.t_in, params.t_out)
        sides == infer_room_sides_from_area(area, params.shape_ratio)
    IN  IF sides.raised # "none"
        THEN Raise(sides.raised)
        ELSE IF params.window_type \notin DOMAIN U_VALUES
        THEN Raise("KeyError")                 \* U_VALUES[params['window_type']]
        ELSE IF params.door_type \notin DOMAIN U_VALUES
        THEN Raise("KeyError")                 \* U_VALUES[params['door_type']]
        ELSE
        LET perimeter == RMul(Num(2), RAdd(sides.length, sides.width))
            wall_area == RMul(perimeter, height)
            wall_loss == RMul(RMul(wall_area,
                                   RDiv(MaterialsGet(params.wall_material),
                                        RMax(params.wall_thickness, Rat(1, 100)))),
                              delta)
            window_loss == RMul(RMul(params.window_area, U_VALUES[params.window_type]), delta)
            door_loss == RMul(RMul(params.door_area, U_VALUES[params.door_type]), delta)
            floor_type == IF params.floor_insulated THEN "pol_uteplennyy" ELSE "pol_neuteplennyy"
            floor_loss == RMul(RMul(area, U_VALUES[floor_type]), delta)
            ceiling_type == IF params.ceiling_insulated THEN "potolok_uteplennyy"
                                                        ELSE "potolok_neuteplennyy"
            ceiling_loss == RMul(RMul(area, U_VALUES[ceiling_type]), delta)
            room_volume == RMul(area, height)
            infiltration_loss ==
                RDiv(RMul(RMul(RMul(RMul(room_volume, Rat(3, 10)), Rat(12, 10)), Num(1005)), delta),
                     Num(3600))
            components == [ Steny        |-> wall_loss,
                            Okna         |-> window_loss,
                            Dveri        |-> door_loss,
                            Pol          |-> floor_loss,
                            Potolok      |-> ceiling_loss,
                            Infiltraciya |-> infiltration_loss ]
        IN  [ raised      |-> "none",
              total_loss  |-> TotalLoss(components),
              components  |-> components,
              room_volume |-> room_volume,
              sides       |-> <<sides.length, sides.width>>,
              wall_area   |-> wall_area ]

----------------------------------------------------------------------------
(* select_heat_exchangers *)

\* if prefer_type != "все" and u['type'] != prefer_type: continue
TypeAdmitted(u, prefer_type) == ~(prefer_type # "vse" /\ u.type # prefer_type)

\* air_exchange = total_air / max(room_volume, 1.0)
AirExchange(total_air, room_volume) == RDiv(Num(total_air), RMax(room_volume, Num(1)))

\* mutant: the 15 % reserve is forgotten (power merely covers the requirement)
MeetsRequirement_NoReserve(power_margin_ratio, air_exchange) ==
    /\ RLe(Num(1), power_margin_ratio)
    /\ RLe(Rat(25, 10), air_exchange)
    /\ RLe(air_exchange, Num(7))

\* power_margin_ratio >= 1.15 and 2.5 <= air_exchange <= 7.0
MeetsRequirement(power_margin_ratio, air_exchange) ==
    /\ RLe(Rat(115, 100), power_margin_ratio)
    /\ RLe(Rat(25, 10), air_exchange)
    /\ RLe(air_exchange, Num(7))

\* the body of the two loops for one (n, u): TRUE when a candidate is appended
Appends(n, u, required_kw, room_volume, prefer_type) ==
    /\ TypeAdmitted(u, prefer_type)
    /\ ~RLe(required_kw, Zero)                 \* if required_kw <= 0: continue
    /\ MeetsRequirement(RDiv(RMul(u.power, Num(n)), required_kw),
                        AirExchange(u.air_flow * n, room_volume))

\* the dictionary appended for (n, u)
Candidate(n, u, required_kw, room_volume) ==
    LET total_power == RMul(u.power, Num(n))
        total_air == u.air_flow * n
    IN  [ model             |-> <<n, u.model>>,
          base_model        |-> u.model,
          units             |-> n,
          power_kW          |-> total_power,
          air_flow          |-> total_air,
          air_exchange      |-> RRound(AirExchange(total_air, room_volume), 100),
          power_reserve_pct |-> RRound(RMul(RDiv(RSub(total_power, required_kw), required_kw),
                                            Num(100)), 10),
          price             |-> u.price * n ]

\* candidates after the first k iterations of the loop nest (n outer, units inner)
RECURSIVE Candidates(_, _, _, _)
Candidates(k, required_kw, room_volume, prefer_type) ==
    IF k = 0 THEN <<>>
    ELSE LET units == load_heat_exchangers
             n == ((k - 1) \div Len(units)) + 1
             u == units[((k - 1) % Len(units)) + 1]
             before == Candidates(k - 1, required_kw, room_volume, prefer_type)
         IN  IF Appends(n, u, required_kw, room_volume, prefer_type)
             THEN Append(before, Candidate(n, u, required_kw, room_volume))
             ELSE before

\* mutant: the sort key is the price alone
KeyLess_PriceOnly(a, b) == a.price < b.price

\* key=lambda x: (x['price'], abs(x['power_reserve_%'])), compared as tuples
KeyLess(a, b) ==
    \/ a.price < b.price
    \/ a.price = b.price /\ RLt(RAbs(a.power_reserve_pct), RAbs(b.power_reserve_pct))

\* stable insertion: x goes after every element whose key is not greater
RECURSIVE InsertByKey(_, _)
InsertByKey(s, x) ==
    IF s = <<>> THEN <<x>>
    ELSE IF KeyLess(x, Head(s)) THEN <<x>> \o s
    ELSE <<Head(s)>> \o InsertByKey(Tail(s), x)

\* sorted(candidates, key=...): Python's sort is stable
RECURSIVE SortedByKey(_)
SortedByKey(s) ==
    IF s = <<>> THEN <<>>
    ELSE InsertByKey(SortedByKey(SubSeq(s, 1, Len(s) - 1)), s[Len(s)])

\* mutant: only cascades of exactly max_units units are tried
\* (range(max_units, max_units+1) instead of range(1, max_units+1))
select_heat_exchangers_ExactlyMaxUnits(required_kw, room_volume, prefer_type, max_units) ==
    LET iterations == IF max_units >= 1 THEN max_units * Len(load_heat_exchangers) ELSE 0
    IN  [ raised |-> "none",
          value  |-> SelectSeq(
                        SortedByKey(Candidates(iterations, required_kw, room_volume,
                                               prefer_type)),
                        LAMBDA c : c.units = max_units) ]

\* mutant: range(1, max_units) instead of range(1, max_units+1)
select_heat_exchangers_RangeStopsEarly(required_kw, room_volume, prefer_type, max_units) ==
    LET iterations == IF max_units >= 2 THEN (max_units - 1) * Len(load_heat_exchangers) ELSE 0
    IN  [ raised |-> "none",
          value  |-> SortedByKey(Candidates(iterations, required_kw, room_volume, prefer_type)) ]

select_heat_exchangers(required_kw, room_volume, prefer_type, max_units) ==
    LET iterations == IF max_units >= 1 THEN max_units * Len(load_heat_exchangers) ELSE 0
    IN  [ raised |-> "none",
          value  |-> SortedByKey(Candidates(iterations, required_kw, room_volume, prefer_type)) ]

----------------------------------------------------------------------------
(* main: one evaluation of the page (the script is re-run on every input) *)

\* params = {...}
Params(inp) ==
    [ area              |-> inp.area,
      height            |-> inp.height,
      shape_ratio       |-> inp.ratio,
      wall_material     |-> inp.wall_material,
      wall_thickness    |-> inp.wall_thickness,
      window_area       |-> inp.window_area,
      window_type       |-> inp.window_type,
      door_area         |-> inp.door_area,
      door_type         |-> inp.door_type,
      floor_insulated   |-> inp.floor_insulated,
      ceiling_insulated |-> inp.ceiling_insulated,
      t_out             |-> inp.t_out,
      t_in              |-> inp.t_in ]

\* radiator_heat_w: the radiators count only when present with sections > 0
RadiatorHeatW(inp) ==
    IF inp.rad_present /\ inp.rad_sections_total > 0
    THEN radiator_total_heat(inp.rad_sections_total, inp.rad_type, inp.rad_height,
                             inp.t_fluid_in, inp.t_in).value
    ELSE Zero

\* net_need_w = max(total_loss_w - radiator_heat_w, 0.0); net_need_kw = net_need_w / 1000.0
NetNeedKw(total_loss_w, radiator_heat_w) ==
    RDiv(RMax(RSub(total_loss_w, radiator_heat_w), Zero), Num(1000))

\* select_heat_exchangers(net_need_kw if net_need_kw > 0 else 0.001, room_volume,
\*                        prefer_type="торнадо", max_units=max_units)
MainSelect(net_need_kw, room_volume, max_units) ==
    select_heat_exchangers(IF RLt(Zero, net_need_kw) THEN net_need_kw ELSE Rat(1, 1000),
                           room_volume, "tornado", max_units).value

\* mutant: the list found for the 0.001 kW stand-in is not discarded
Suitable_KeepsSelection(net_need_kw, selected) == selected

\* if net_need_kw <= 0: suitable = []
Suitable(net_need_kw, selected) == IF RLe(net_need_kw, Zero) THEN <<>> ELSE selected

\* what the page shows and exports, given the values computed above
MainResult(loss, radiator_heat_w, net_need_kw, selected, suitable) ==
    LET message == IF RLe(net_need_kw, Zero) THEN "success: not required"
                   ELSE IF suitable # <<>> THEN "success: recommended"
                   ELSE "warning: none suitable"
        has_best == RLt(Zero, net_need_kw) /\ Len(suitable) > 0
    IN  [ raised                    |-> "none",
          total_loss_w              |-> loss.total_loss,
          breakdown                 |-> loss.components,
          room_volume               |-> loss.room_volume,
          radiator_heat_w           |-> radiator_heat_w,
          net_need_kw               |-> net_need_kw,
          selected                  |-> selected,
          suitable                  |-> suitable,
          message                   |-> message,
          recommended_configuration |-> IF has_best THEN suitable[1].model ELSE <<0, "-">>,
          recommended_price         |-> IF has_best THEN suitable[1].price ELSE 0 ]

----------------------------------------------------------------------------
(* Bounds of the model and the grids the inputs are drawn from *)

MaxUnitsArg == 7
MaxSectionsArg == 50

RequiredInputs ==
    { Num(-5), Zero, Rat(1, 2), Num(17), Rat(174, 10), Num(28), Num(100), Num(300), Num(600) }
VolumeInputs ==
    { Num(-3), Zero, Rat(1, 2), Num(190), Num(400), Num(532), Num(533), Num(1200),
      Num(5000), Num(9000) }
PreferTypeInputs == {"tornado", "vse", "drugoy"}
MaxUnitsInputs == (-1)..MaxUnitsArg

AreaInputs == { Num(-4), Zero, Num(4), Num(100) }
RatioInputs == { Num(-1), Zero, Num(1), Num(4) }
HeightInputs == { Zero, Num(3) }
MaterialInputs == {"kirpich", "beton"}
ThicknessInputs == { Zero, Rat(1, 2) }
WindowAreaInputs == { Zero, Num(5) }
WindowTypeInputs == {"okno_evro", "okno_neizvestnoe"}
DoorAreaInputs == { Num(2) }
DoorTypeInputs == {"dver_uteplennaya", "dver_neizvestnaya"}
OutdoorInputs == { Num(-20), Num(18) }
IndoorInputs == { Num(-5), Num(18), Num(20) }

SectionsInputs == (-1)..MaxSectionsArg
RadTypeInputs == {"alyuminievye", "chugunnye", "stalnye"}
RadHeightInputs == {350, 500, 600}
FluidInputs == { Num(10), Num(80) }

\* the sidebar widgets of main restrict what an evaluation of the page receives:
\* area >= 4, height >= 2, ratio in [0.2, 10], thickness >= 0.05, known
\* dictionary keys, max_units in 1..4; without radiators the section count is 0
MainAreaInputs == { Num(16), Num(100) }
MainHeightInputs == { Num(2), Num(4) }
MainRatioInputs == { Num(1), Num(4) }
MainMaterialInputs == {"kirpich", "sendvich_panel"}
MainOutdoorInputs == { Num(-22), Num(18) }
MainFluidInputs == { Num(10), Num(70) }
MainRadiatorInputs ==
    { [rad_present |-> FALSE, rad_type |-> "None", rad_height |-> 0, rad_sections_total |-> 0],
      [rad_present |-> TRUE, rad_type |-> "alyuminievye", rad_height |-> 500,
       rad_sections_total |-> 0],
      [rad_present |-> TRUE, rad_type |-> "alyuminievye", rad_height |-> 500,
       rad_sections_total |-> 200] }
MainMaxUnitsInputs == 1..4

MainInput(area, height, ratio, wall_material, t_out, t_fluid_in, rad, max_units) ==
    [ area               |-> area,
      height             |-> height,
      ratio              |-> ratio,
      wall_material      |-> wall_material,
      wall_thickness     |-> Rat(1, 2),
      window_area        |-> Num(5),
      window_type        |-> "okno_evro",
      door_area          |-> Num(2),
      door_type          |-> "dver_uteplennaya",
      floor_insulated    |-> TRUE,
      ceiling_insulated  |-> TRUE,
      t_out              |-> t_out,
      t_in               |-> Num(18),
      t_fluid_in         |-> t_fluid_in,
      rad_present        |-> rad.rad_present,
      rad_type           |-> rad.rad_type,
      rad_height         |-> rad.rad_height,
      rad_sections_total |-> rad.rad_sections_total,
      max_units          |-> max_units ]

\* math.sqrt is modelled where it is exact
SqrtExact(area_m2, ratio) ==
    IF RLe(area_m2, Zero) \/ RLe(ratio, Zero) THEN TRUE ELSE RIsSquare(RDiv(area_m2, ratio))

----------------------------------------------------------------------------
(* The state machine.  The core is a set of pure functions with no shared   *)
(* state: a caller that is idle (op = "none") makes one call, the call's    *)
(* arguments and result are the state, and the caller takes the result and *)
(* is idle again.                                                          *)

Init ==
    /\ op = "none"
    /\ args = <<>>
    /\ ret = <<>>

CallInferRoomSides ==
    \E area_m2 \in AreaInputs, ratio \in RatioInputs :
        /\ op = "none"
        /\ SqrtExact(area_m2, ratio)
        /\ op' = "infer_room_sides_from_area"
        /\ args' = [area_m2 |-> area_m2, ratio |-> ratio]
        /\ ret' = infer_room_sides_from_area(area_m2, ratio)

CallRadiatorTotalHeat ==
    \E sections_total \in SectionsInputs, rad_type \in RadTypeInputs,
       height_mm \in RadHeightInputs, t_fluid_in \in FluidInputs, t_in \in IndoorInputs :
        /\ op = "none"
        /\ op' = "radiator_total_heat"
        /\ args' = [ sections_total |-> sections_total, rad_type |-> rad_type,
                     height_mm |-> height_mm, t_fluid_in |-> t_fluid_in, t_in |-> t_in ]
        /\ ret' = radiator_total_heat(sections_total, rad_type, height_mm, t_fluid_in, t_in)

LossInputs ==
    [ area : AreaInputs, height : HeightInputs, shape_ratio : RatioInputs,
      wall_material : MaterialInputs, wall_thickness : ThicknessInputs,
      window_area : WindowAreaInputs, window_type : WindowTypeInputs,
      door_area : DoorAreaInputs, door_type : DoorTypeInputs,
      floor_insulated : BOOLEAN, ceiling_insulated : {TRUE},
      t_out : OutdoorInputs, t_in : IndoorInputs ]

CallCalculateHeatLoss ==
    \E params \in LossInputs :
        /\ op = "none"
        /\ SqrtExact(params.area, params.shape_ratio)
        /\ op' = "calculate_heat_loss_by_components"
        /\ args' = params
        /\ ret' = calculate_heat_loss_by_components(params)

CallSelectHeatExchangers ==
    \E required_kw \in RequiredInputs, room_volume \in VolumeInputs,
       prefer_type \in PreferTypeInputs, max_units \in MaxUnitsInputs :
        /\ op = "none"
        /\ op' = "select_heat_exchangers"
        /\ args' = [ required_kw |-> required_kw, room_volume |-> room_volume,
                     prefer_type |-> prefer_type, max_units |-> max_units ]
        /\ ret' = select_heat_exchangers(required_kw, room_volume, prefer_type, max_units)

Main ==
    \E area \in MainAreaInputs, height \in MainHeightInputs, ratio \in MainRatioInputs,
       wall_material \in MainMaterialInputs, t_out \in MainOutdoorInputs,
       t_fluid_in \in MainFluidInputs, rad \in MainRadiatorInputs,
       max_units \in MainMaxUnitsInputs :
        /\ op = "none"
        /\ op' = "main"
        /\ args' = MainInput(area, height, ratio, wall_material, t_out, t_fluid_in, rad,
                             max_units)
        /\ \E loss \in {calculate_heat_loss_by_components(Params(args'))} :
           \E radiator_heat_w \in {RadiatorHeatW(args')} :
           \E net_need_kw \in {NetNeedKw(loss.total_loss, radiator_heat_w)} :
           \E selected \in {MainSelect(net_need_kw, loss.room_volume, max_units)} :
           \E suitable \in {Suitable(net_need_kw, selected)} :
               ret' = MainResult(loss, radiator_heat_w, net_need_kw, selected, suitable)

\* the caller has consumed the result; nothing persists between evaluations
Return ==
    /\ op # "none"
    /\ op' = "none"
    /\ args' = <<>>
    /\ ret' = <<>>

Next ==
    \/ CallInferRoomSides
    \/ CallRadiatorTotalHeat
    \/ CallCalculateHeatLoss
    \/ CallSelectHeatExchangers
    \/ Main
    \/ Return

Spec == Init /\ [][Next]_vars

----------------------------------------------------------------------------
(* Properties of select_heat_exchangers *)

\* the state holds a list returned by select_heat_exchangers: a direct call, or
\* the call made by main
SelectReturned == op \in {"select_heat_exchangers", "main"}
ReturnedList == IF op = "main" THEN ret.selected ELSE ret.value
RequiredArg ==
    IF op = "main"
    THEN (IF RLt(Zero, ret.net_need_kw) THEN ret.net_need_kw ELSE Rat(1, 1000))
    ELSE args.required_kw
VolumeArg == IF op = "main" THEN ret.room_volume ELSE args.room_volume
MaxUnitsArgOf == args.max_units

\* C1: every configuration returned by select_heat_exchangers has total power /
\* required power >= 1.15 and total air flow / max(room volume, 1.0) within
\* [2.5, 7.0], and its recorded (rounded) air_exchange lies in [2.5, 7.0] and its
\* recorded power_reserve_% is at least 15.
C1_ReturnedMeetBothBounds ==
    SelectReturned =>
        \A i \in 1..Len(ReturnedList) :
            LET c == ReturnedList[i]
                floor_volume == IF RLt(VolumeArg, Num(1)) THEN Num(1) ELSE VolumeArg
            IN  /\ RLt(Zero, RequiredArg)
                /\ 100 * c.power_kW[1] * RequiredArg[2] >= 115 * RequiredArg[1] * c.power_kW[2]
                /\ 10 * c.air_flow * floor_volume[2] >= 25 * floor_volume[1]
                /\ c.air_flow * floor_volume[2] <= 7 * floor_volume[1]
                /\ RLe(Rat(5, 2), c.air_exchange) /\ RLe(c.air_exchange, Num(7))
                /\ RLe(Num(15), c.power_reserve_pct)

\* C1 witness: a direct call returned several configurations, one of them exactly
\* on the lower air-exchange bound 2.5 and one with a reserve below 20 %
C1_Witness ==
    /\ op = "select_heat_exchangers"
    /\ Len(ret.value) >= 2
    /\ \E i \in 1..Len(ret.value) : ret.value[i].air_exchange = Rat(5, 2)
    /\ \E i \in 1..Len(ret.value) : RLt(ret.value[i].power_reserve_pct, Num(20))

\* C2: the returned list is sorted by price, ties by power reserve (recorded
\* reserve, and total power behind it), so its first entry has the minimum price.
C2_SortedByPriceThenReserve ==
    SelectReturned =>
        /\ \A i \in 1..(Len(ReturnedList) - 1) :
            LET a == ReturnedList[i]
                b == ReturnedList[i + 1]
            IN  /\ a.price <= b.price
                /\ a.price = b.price =>
                      /\ RLe(a.power_reserve_pct, b.power_reserve_pct)
                      /\ RLe(a.power_kW, b.power_kW)
        /\ \A i \in 1..Len(ReturnedList) : ReturnedList[1].price <= ReturnedList[i].price

\* C2 witness: a returned list in which two configurations have the same price
\* and which is not in the order the loops produced the candidates
C2_Witness ==
    /\ op = "select_heat_exchangers"
    /\ \E i \in 1..(Len(ret.value) - 1) :
          /\ ret.value[i].price = ret.value[i + 1].price
          /\ ret.value[i].units > ret.value[i + 1].units
    /\ \E i \in 1..(Len(ret.value) - 1) : ret.value[i].units > ret.value[i + 1].units

\* C3: a requirement <= 0 yields no configuration: select_heat_exchangers returns
\* [] whenever required_kw <= 0, and an evaluation of the page whose net
\* requirement max(loss - radiator output, 0) is <= 0 ends with an empty list,
\* the "not required" message and no recommended configuration or price.
C3_NoUnitWhenNothingRequired ==
    /\ (op = "select_heat_exchangers" /\ RLe(args.required_kw, Zero)) => ret.value = <<>>
    /\ op = "main" =>
          /\ ret.net_need_kw =
                (IF RLt(ret.radiator_heat_w, ret.total_loss_w)
                 THEN RDiv(RSub(ret.total_loss_w, ret.radiator_heat_w), Num(1000))
                 ELSE Zero)
          /\ RLe(ret.net_need_kw, Zero) =>
                /\ ret.suitable = <<>>
                /\ ret.message = "success: not required"
                /\ ret.recommended_configuration = <<0, "-">>
                /\ ret.recommended_price = 0

\* C3 witness: the radiators cover a positive loss, the search (run on the 0.001
\* kW stand-in) found configurations, and none of them is reported
C3_Witness ==
    /\ op = "main"
    /\ RLt(Zero, ret.total_loss_w)
    /\ RLe(ret.total_loss_w, ret.radiator_heat_w)
    /\ ret.net_need_kw = Zero
    /\ ret.selected # <<>>
    /\ ret.suitable = <<>>

\* C4: units are credited their power corrected to the actual temperatures; in
\* particular, with the fluid not warmer than the room air every unit is credited
\* zero power and a positive requirement gets no configuration.
C4_NoConfigurationWithoutDrivingDelta ==
    (op = "main" /\ RLe(args.t_fluid_in, args.t_in) /\ RLt(Zero, ret.net_need_kw))
        => ret.suitable = <<>>

\* C10: for required power > 0 (and the default unit-type filter, which admits the
\* whole catalog) the result holds exactly the feasible pairs: (n, unit) occurs
\* once when unit power * n / required >= 1.15 and 2.5 <= unit air flow * n /
\* max(volume, 1.0) <= 7.0, and not at all otherwise; every entry is such a pair
\* and carries power, air flow and price of n units.
FeasiblePair(n, u) ==
    LET floor_volume == IF RLt(args.room_volume, Num(1)) THEN Num(1) ELSE args.room_volume
        total_power == <<u.power[1] * n, u.power[2]>>
        total_air == u.air_flow * n
    IN  /\ 100 * total_power[1] * args.required_kw[2]
              >= 115 * args.required_kw[1] * total_power[2]
        /\ 10 * total_air * floor_volume[2] >= 25 * floor_volume[1]
        /\ total_air * floor_volume[2] <= 7 * floor_volume[1]

Occurrences(n, u) ==
    Cardinality({ i \in 1..Len(ret.value) :
                    ret.value[i].units = n /\ ret.value[i].base_model = u.model })

C10_ExactlyTheFeasiblePairs ==
    ( /\ op = "select_heat_exchangers"
      /\ RLt(Zero, args.required_kw)
      /\ args.prefer_type \in {"tornado", "vse"} ) =>
        /\ \A n \in 1..args.max_units :
            \A k \in 1..Len(load_heat_exchangers) :
                LET u == load_heat_exchangers[k]
                IN  Occurrences(n, u) = (IF FeasiblePair(n, u) THEN 1 ELSE 0)
        /\ \A i \in 1..Len(ret.value) :
            LET c == ret.value[i]
            IN  /\ c.units \in 1..args.max_units
                /\ \E k \in 1..Len(load_heat_exchangers) :
                      LET u == load_heat_exchangers[k]
                      IN  /\ c.base_model = u.model
                          /\ c.model = <<c.units, u.model>>
                          /\ c.power_kW = Rat(u.power[1] * c.units, u.power[2])
                          /\ c.air_flow = u.air_flow * c.units
                          /\ c.price = u.price * c.units

\* C10 witness: a call with several counts in which some pairs are feasible, one
\* fails on power alone, one on too little air and one on too much air
C10_Witness ==
    /\ op = "select_heat_exchangers"
    /\ RLt(Zero, args.required_kw)
    /\ args.prefer_type = "tornado"
    /\ args.max_units >= 3
    /\ Len(ret.value) >= 3
    /\ \E n \in 1..args.max_units : \E k \in 1..Len(load_heat_exchangers) :
          LET u == load_heat_exchangers[k]
          IN  /\ ~FeasiblePair(n, u)
              /\ RLe(Rat(5, 2), AirExchange(u.air_flow * n, args.room_volume))
              /\ RLe(AirExchange(u.air_flow * n, args.room_volume), Num(7))
    /\ \E n \in 1..args.max_units : \E k \in 1..Len(load_heat_exchangers) :
          RLt(AirExchange(load_heat_exchangers[k].air_flow * n, args.room_volume), Rat(5, 2))
    /\ \E n \in 1..args.max_units : \E k \in 1..Len(load_heat_exchangers) :
          RLt(Num(7), AirExchange(load_heat_exchangers[k].air_flow * n, args.room_volume))

\* the unit-type filter of the call in the state (main passes "торнадо")
PreferTypeArg == IF op = "main" THEN "tornado" ELSE args.prefer_type

\* the cascade bounds below the one of the call in the state
SmallerMaxUnits == { k \in MaxUnitsInputs : k < args.max_units }

\* C11: raising the cascade bound never removes an option: with required power
\* and room volume fixed and k < k', every configuration returned for max_units
\* = k is returned for max_units = k'; so a non-empty result stays non-empty and
\* the price of the first (recommended) configuration does not rise.
C11_RaisingMaxUnitsKeepsOptions ==
    SelectReturned =>
        \A k \in SmallerMaxUnits :
            \A smaller \in { select_heat_exchangers(RequiredArg, VolumeArg, PreferTypeArg,
                                                    k).value } :
                /\ \A i \in 1..Len(smaller) :
                      \E j \in 1..Len(ReturnedList) : ReturnedList[j] = smaller[i]
                /\ smaller # <<>> =>
                      /\ ReturnedList # <<>>
                      /\ ReturnedList[1].price <= smaller[1].price

\* C11 witness: a call whose result has more configurations than the non-empty
\* result for a smaller bound, and a strictly cheaper first configuration
C11_Witness ==
    /\ op = "select_heat_exchangers"
    /\ \E k \in SmallerMaxUnits :
          \E smaller \in { select_heat_exchangers(args.required_kw, args.room_volume,
                                                  args.prefer_type, k).value } :
              /\ smaller # <<>>
              /\ Len(smaller) < Len(ret.value)
              /\ ret.value[1].price < smaller[1].price

----------------------------------------------------------------------------
(* Properties of calculate_heat_loss_by_components and radiator_total_heat *)

LossCall == op = "calculate_heat_loss_by_components"
\* the state holds a returned heat-loss result (a direct call, or main's call)
LossReturned == (LossCall /\ ret.raised = "none") \/ op = "main"
LossTotal == IF op = "main" THEN ret.total_loss_w ELSE ret.total_loss
LossComponents == IF op = "main" THEN ret.breakdown ELSE ret.components
ComponentNames == {"Steny", "Okna", "Dveri", "Pol", "Potolok", "Infiltraciya"}

\* C5: with the indoor temperature equal to or below the outdoor one the total
\* loss and each of the six components are 0; the total is always the sum of the
\* six components.
C5_NoLossWithoutTemperatureDifference ==
    LossReturned =>
        /\ DOMAIN LossComponents = ComponentNames
        /\ LossTotal = RAdd(RAdd(LossComponents.Infiltraciya, LossComponents.Potolok),
                            RAdd(RAdd(LossComponents.Pol, LossComponents.Dveri),
                                 RAdd(LossComponents.Okna, LossComponents.Steny)))
        /\ RLe(args.t_in, args.t_out) =>
              /\ LossTotal = Zero
              /\ \A name \in ComponentNames : LossComponents[name] = Zero

\* C5 witness: a room with positive area, height, window and door area, indoor
\* temperature strictly below the outdoor one, and a returned result
C5_Witness ==
    /\ LossCall /\ ret.raised = "none"
    /\ RLt(args.t_in, args.t_out)
    /\ RLt(Zero, args.area) /\ RLt(Zero, args.height)
    /\ RLt(Zero, args.window_area) /\ RLt(Zero, args.door_area)
    /\ RLt(Zero, ret.wall_area) /\ RLt(Zero, ret.room_volume)

\* max(t_in - t_out, 0) of a climate
ClimateDelta(t_in, t_out) == IF RLt(t_out, t_in) THEN RSub(t_in, t_out) ELSE Zero

\* none of the areas the loss is proportional to is negative
NoNegativeArea ==
    /\ RLt(Zero, args.area) /\ RLe(Zero, args.height)
    /\ RLe(Zero, args.window_area) /\ RLe(Zero, args.door_area)

\* C6: with geometry and envelope fixed, a climate with a strictly larger
\* deltaT = max(indoor - outdoor, 0) gives a strictly larger value of every
\* component whose area (or volume) is positive (all coefficients are), and a
\* strictly larger total for a room none of whose areas is negative.
C6_LossStrictlyGrowsWithDelta ==
    (LossCall /\ ret.raised = "none") =>
        \A t_out \in OutdoorInputs, t_in \in IndoorInputs :
            RLt(ClimateDelta(args.t_in, args.t_out), ClimateDelta(t_in, t_out)) =>
                \A other \in { calculate_heat_loss_by_components(
                                   [args EXCEPT !.t_out = t_out, !.t_in = t_in]) } :
                    /\ other.raised = "none"
                    /\ RLt(Zero, ret.wall_area) =>
                          RLt(ret.components.Steny, other.components.Steny)
                    /\ RLt(Zero, args.window_area) =>
                          RLt(ret.components.Okna, other.components.Okna)
                    /\ RLt(Zero, args.door_area) =>
                          RLt(ret.components.Dveri, other.components.Dveri)
                    /\ RLt(Zero, args.area) =>
                          /\ RLt(ret.components.Pol, other.components.Pol)
                          /\ RLt(ret.components.Potolok, other.components.Potolok)
                    /\ RLt(Zero, ret.room_volume) =>
                          RLt(ret.components.Infiltraciya, other.components.Infiltraciya)
                    /\ NoNegativeArea => RLt(ret.total_loss, other.total_loss)

\* C6 witness: a returned result with all six areas positive under a climate with
\* a positive deltaT that is neither the smallest nor the largest of the grid
C6_Witness ==
    /\ LossCall /\ ret.raised = "none"
    /\ RLt(Zero, args.area) /\ RLt(Zero, args.height)
    /\ RLt(Zero, args.window_area) /\ RLt(Zero, args.door_area)
    /\ \A name \in ComponentNames : RLt(Zero, ret.components[name])
    /\ \E t_out \in OutdoorInputs, t_in \in IndoorInputs :
          RLt(ClimateDelta(args.t_in, args.t_out), ClimateDelta(t_in, t_out))
    /\ \E t_out \in OutdoorInputs, t_in \in IndoorInputs :
          /\ RLt(Zero, ClimateDelta(t_in, t_out))
          /\ RLt(ClimateDelta(t_in, t_out), ClimateDelta(args.t_in, args.t_out))

\* the per-section coefficient the claim tabulates, in tenths of W/°C
ClaimedCoeffTenths(rad_type, height_mm) ==
    IF rad_type = "alyuminievye" /\ height_mm = 350 THEN 24
    ELSE IF rad_type = "alyuminievye" /\ height_mm = 500 THEN 32
    ELSE IF rad_type = "chugunnye" /\ height_mm = 350 THEN 18
    ELSE IF rad_type = "chugunnye" /\ height_mm = 500 THEN 26
    ELSE 22

\* C7: radiator_total_heat returns 0 for sections <= 0 and otherwise sections *
\* coefficient * max(fluid - indoor, 0) with the tabulated coefficient (2.2 off
\* the table); 50 aluminium 500 mm sections at 80 / 18 give 9920 W; the result is
\* never negative.
C7_RadiatorOutput ==
    op = "radiator_total_heat" =>
        /\ ret.raised = "none"
        /\ RLe(Zero, ret.value)
        /\ args.sections_total <= 0 => ret.value = Zero
        /\ args.sections_total > 0 =>
              ret.value =
                  LET d == ClimateDelta(args.t_fluid_in, args.t_in)
                  IN  Rat(args.sections_total
                            * ClaimedCoeffTenths(args.rad_type, args.height_mm) * d[1],
                          10 * d[2])
        /\ ( /\ args.sections_total = 50 /\ args.rad_type = "alyuminievye"
             /\ args.height_mm = 500 /\ args.t_fluid_in = Num(80) /\ args.t_in = Num(18) )
              => ret.value = Num(9920)

\* C7 witness: the scenario of 50 aluminium 500 mm sections at 80 / 18
C7_Witness ==
    /\ op = "radiator_total_heat"
    /\ args.sections_total = 50 /\ args.rad_type = "alyuminievye"
    /\ args.height_mm = 500 /\ args.t_fluid_in = Num(80) /\ args.t_in = Num(18)
    /\ ret.value = Num(9920)

\* C8: an unknown wall material, window or door U-value key, radiator type or
\* section height never makes a lookup fail: the call falls back to a default
\* coefficient and returns.
C8_UnknownKeysFallBack ==
    /\ ( /\ LossCall
         /\ \/ args.wall_material \notin DOMAIN MATERIALS
            \/ args.window_type \notin DOMAIN U_VALUES
            \/ args.door_type \notin DOMAIN U_VALUES )
          => ret.raised # "KeyError"
    /\ ( /\ op = "radiator_total_heat"
         /\ \/ args.rad_type \notin DOMAIN SECTION_COEFF
            \/ args.height_mm \notin {350, 500} )
          => ret.raised = "none"

\* C9: every core operation returns for any numeric input, zero and negative
\* values included: no call given known dictionary keys raises.
C9_TotalOverNumericInput ==
    /\ op \in {"infer_room_sides_from_area", "radiator_total_heat",
               "select_heat_exchangers", "main"} => ret.raised = "none"
    /\ ( /\ LossCall
         /\ args.window_type \in DOMAIN U_VALUES
         /\ args.door_type \in DOMAIN U_VALUES )
          => ret.raised = "none"

====
